---- MODULE Spec2Model ----
(***************************************************************************)
(* Sales aggregation pipeline of data-analyst-eda-daily-sales:             *)
(* src/src/polarsUtils.py (filterLastNDaysFromMaxDate) and src/src/eda.py  *)
(* (prepareSummaryStatistics, prepareTopSellers, prepareSalesByDay,        *)
(* prepareSalesDistributions, generateSalesEDA).                           *)
(*                                                                         *)
(* A table is a sequence of rows.  A timestamp is a number of ticks, with  *)
(* TicksPerDay ticks in a calendar day, or NULL.  Sale prices are whole    *)
(* numbers, so that sums are exact.  A table produced by group_by has no   *)
(* specified row order (polars, maintain_order = False) and is a set of    *)
(* rows; a sort turns it into a sequence.                                  *)
(***************************************************************************)
EXTENDS Integers, Sequences, FiniteSets

VARIABLES
    df,        \* the table the operations are called on
    call,      \* the operation in progress or last called, with its arguments
    filtered,  \* local `df` after filterLastNDaysFromMaxDate, in the callers
    grouped,   \* local result of group_by(...).agg(sum), a table without order
    ret,       \* outcome of the call: a value or an error
    pc,        \* position of generateSalesEDA
    pdf,       \* the PdfPages object: "none", "open" or "closed"
    pages,     \* pages saved to the PDF, in order
    figs,      \* matplotlib figures that are open (created, not yet closed)
    gen,       \* position of the prepareSalesDistributions generator
    files,     \* the Excel files of the directory, in the order of os.listdir
    warnings,  \* files the loader printed "Warning: Could not process file" for
    saved      \* the tables written by saveDataFrameToExcel, in order

vars ==
    <<df, call, filtered, grouped, ret, pc, pdf, pages, figs, gen, files,
      warnings, saved>>

-----------------------------------------------------------------------------
(* Bounds and value domains                                                *)

MaxRows == 3
MaxDays == 2
MaxLimit == 2
TicksPerDay == 2

NULL == -1

Sellers == {"A", "B", "C"}
Warehouses == {"W1", "W2"}
Movements == {"T1", "T2"}
Timestamps == {0, 1, 2, 4}
Prices == {1, 2, 3}

\* Rows that differ in timestamp and seller, all of one ticket and one price.
WindowRows ==
    [wh : {"W1"}, mov : {"T1"}, ts : Timestamps \cup {NULL},
     seller : {"A", "B"}, price : {1}]

\* Rows that differ in seller and price, seller A on day 0 and the others on
\* day 1, all of one ticket.
PricedRows ==
    {[wh |-> "W1", mov |-> "T1", ts |-> IF s = "A" THEN 0 ELSE TicksPerDay,
      seller |-> s, price |-> p] : s \in Sellers, p \in Prices}

\* Rows that differ in ticket (warehouse, movement) and price, all at one time.
TicketRows ==
    [wh : Warehouses, mov : Movements, ts : {0}, seller : {"A"}, price : {1, 2}]

\* Rows of tickets that differ in warehouse and price, without a timestamp.
UndatedRows ==
    [wh : Warehouses, mov : {"T1"}, ts : {NULL}, seller : {"A"}, price : {1, 2}]

TablesOver(R) == UNION {[1..n -> R] : n \in 0..MaxRows}

Tables ==
    TablesOver(WindowRows) \cup TablesOver(PricedRows)
        \cup TablesOver(TicketRows) \cup TablesOver(UndatedRows)

-----------------------------------------------------------------------------
(* Helpers on sequences and sets                                           *)

RECURSIVE SumPrice(_)
SumPrice(rows) ==
    IF rows = <<>> THEN 0 ELSE Head(rows).price + SumPrice(Tail(rows))

SetMax(S) == CHOOSE x \in S : \A y \in S : y <= x

\* ColMax with 0 standing for the maximum of no value.
ColMaxOrZero(rows) ==
    LET vals == {rows[i].ts : i \in DOMAIN rows} \ {NULL}
    IN  IF vals = {} THEN 0 ELSE SetMax(vals)

\* pl.col(c).max(): nulls are skipped; null when there is no value.
ColMax(rows) ==
    LET vals == {rows[i].ts : i \in DOMAIN rows} \ {NULL}
    IN  IF vals = {} THEN NULL ELSE SetMax(vals)

Ok(v) == [ok |-> TRUE, err |-> "", val |-> v]

Err(e) == [ok |-> FALSE, err |-> e, val |-> <<>>]

-----------------------------------------------------------------------------
(* polarsUtils.filterLastNDaysFromMaxDate                                  *)

\* InWindow with an exclusive lower bound.
InWindowExclusive(r, cutoff) == r.ts # NULL /\ r.ts > cutoff

\* The filter predicate pl.col(columnDate) >= cutoffDate; null compares to null
\* and the row is dropped.
InWindow(r, cutoff) == r.ts # NULL /\ r.ts >= cutoff

\* cutoffDate with the days added instead of subtracted.
cutoffDateForward(maxDate, days) == maxDate + days * TicksPerDay

\* maxDate - timedelta(days=days)
cutoffDate(maxDate, days) == maxDate - days * TicksPerDay

filterLastNDaysFromMaxDate(rows, days) ==
    LET maxDate == ColMax(rows)
    IN  IF maxDate = NULL
        THEN Err("ValueError")
        ELSE LET Keep(r) == InWindow(r, cutoffDate(maxDate, days))
             IN  Ok(SelectSeq(rows, Keep))

-----------------------------------------------------------------------------
(* The Aggregator: group_by(keys).agg(pl.col(SALE_PRICE).sum())            *)

SellerKey(r) == r.seller

\* TicketKey without the warehouse.
MovementKey(r) == <<r.mov, r.mov>>

TicketKey(r) == <<r.wh, r.mov>>

\* DayKey without the truncation to the day.
TimestampKey(r) == r.ts

\* pl.col(DATE).dt.date(): the calendar day of a timestamp.
DayKey(r) == IF r.ts = NULL THEN NULL ELSE r.ts \div TicksPerDay

\* group_by([NO_MOV, WAREHOUSE]) of prepareSalesDistributions.
MovWarehouseKey(r) == <<r.mov, r.wh>>

\* The value of the group_by expression `by` in row r.
KeyBy(by, r) ==
    CASE by = "seller" -> SellerKey(r)
      [] by = "ticket" -> TicketKey(r)
      [] by = "day" -> DayKey(r)
      [] by = "movWarehouse" -> MovWarehouseKey(r)

\* GroupSum with first() in place of sum().
GroupFirst(rows, by) ==
    {[key |-> k,
      total |-> LET Same(r) == KeyBy(by, r) = k IN Head(SelectSeq(rows, Same)).price]
        : k \in {KeyBy(by, rows[i]) : i \in DOMAIN rows}}

\* One row per key value present, carrying the sum of the price of the rows
\* with that key.  The row order of the result is not specified.
GroupSum(rows, by) ==
    {[key |-> k,
      total |-> LET Same(r) == KeyBy(by, r) = k IN SumPrice(SelectSeq(rows, Same))]
        : k \in {KeyBy(by, rows[i]) : i \in DOMAIN rows}}

\* The value of column `column` of a row of a grouped table.
Col(g, column) == IF column = "total" THEN g.total ELSE g.key

\* sort that never sorts descending.
sortAscending(G, column, descending) ==
    {s \in [1..Cardinality(G) -> G] :
        /\ \A i, j \in DOMAIN s : i # j => s[i] # s[j]
        /\ \A i, j \in DOMAIN s : i < j => Col(s[i], column) <= Col(s[j], column)}

\* DataFrame.sort(column, descending): every order of the rows of G that is
\* sorted on the column; the order of rows that compare equal is not specified
\* (group_by gives no order and sort has maintain_order = False).
sort(G, column, descending) ==
    {s \in [1..Cardinality(G) -> G] :
        /\ \A i, j \in DOMAIN s : i # j => s[i] # s[j]
        /\ \A i, j \in DOMAIN s :
              i < j => IF descending THEN Col(s[i], column) >= Col(s[j], column)
                                      ELSE Col(s[i], column) <= Col(s[j], column)}

\* DataFrame.head(n)
head(s, n) == SubSeq(s, 1, IF n < Len(s) THEN n ELSE Len(s))

-----------------------------------------------------------------------------
(* Reductions of prepareSummaryStatistics, in hundredths (round(2))        *)

SALES_MEAN == "PROMEDIO"
SALES_MEDIAN == "MEDIANA"
SALES_STDDEV == "DESVIACION ESTANDAR"
SALES_MIN == "VENTA MINIMA"
SALES_MAX == "VENTA MAXIMA"

\* The totals of a grouped table in ascending order.
RECURSIVE SortedTotals(_)
SortedTotals(G) ==
    IF G = {} THEN <<>>
    ELSE LET g == CHOOSE x \in G : \A y \in G : x.total <= y.total
         IN  <<g.total>> \o SortedTotals(G \ {g})

RECURSIVE SeqSum(_)
SeqSum(s) == IF s = <<>> THEN 0 ELSE Head(s) + SeqSum(Tail(s))

RECURSIVE SeqSumSq(_)
SeqSumSq(s) == IF s = <<>> THEN 0 ELSE Head(s) * Head(s) + SeqSumSq(Tail(s))

\* num / den rounded to two decimals, half to even, as a number of hundredths.
Round2(num, den) ==
    LET q == (100 * num) \div den
        r == (100 * num) % den
    IN  IF 2 * r < den THEN q
        ELSE IF 2 * r > den THEN q + 1
        ELSE IF q % 2 = 0 THEN q ELSE q + 1

\* The largest r in lo..hi with r * r <= n.
RECURSIVE ISqrtIn(_, _, _)
ISqrtIn(n, lo, hi) ==
    IF lo >= hi THEN lo
    ELSE LET mid == (lo + hi + 1) \div 2
         IN  IF mid * mid <= n THEN ISqrtIn(n, mid, hi)
                               ELSE ISqrtIn(n, lo, mid - 1)

ISqrt(n) == ISqrtIn(n, 0, IF n < 46340 THEN n ELSE 46340)

\* sqrt(num / den) rounded to two decimals, as a number of hundredths.
RoundSqrt2(num, den) == (ISqrt((40000 * num) \div den) + 1) \div 2

mean(s) == IF s = <<>> THEN NULL ELSE Round2(SeqSum(s), Len(s))

median(s) ==
    IF s = <<>> THEN NULL
    ELSE IF Len(s) % 2 = 1 THEN 100 * s[(Len(s) + 1) \div 2]
    ELSE Round2(s[Len(s) \div 2] + s[Len(s) \div 2 + 1], 2)

\* Series.std(), ddof = 1: null for fewer than two values.
std(s) ==
    IF Len(s) <= 1 THEN NULL
    ELSE RoundSqrt2(Len(s) * SeqSumSq(s) - SeqSum(s) * SeqSum(s),
                    Len(s) * (Len(s) - 1))

min(s) == IF s = <<>> THEN NULL ELSE 100 * s[1]

max(s) == IF s = <<>> THEN NULL ELSE 100 * s[Len(s)]

\* The five reductions of the values t (in ascending order), one row.
Reduce(t) ==
    [c \in {SALES_MEAN, SALES_MEDIAN, SALES_STDDEV, SALES_MIN, SALES_MAX} |->
        CASE c = SALES_MEAN -> mean(t)
          [] c = SALES_MEDIAN -> median(t)
          [] c = SALES_STDDEV -> std(t)
          [] c = SALES_MIN -> min(t)
          [] c = SALES_MAX -> max(t)]

\* summary reducing the sale price of the rows of df, not the ticket totals.
summaryOfRows(ticketSales) ==
    Reduce(SortedTotals({[key |-> i, total |-> df[i].price] : i \in DOMAIN df}))

\* The one-row table `summary` of prepareSummaryStatistics.
summary(ticketSales) == Reduce(SortedTotals(ticketSales))

-----------------------------------------------------------------------------

NoCall == [op |-> "none", days |-> 0, limit |-> 0, ascending |-> FALSE]

Init ==
    /\ df \in Tables
    /\ call = NoCall
    /\ filtered = <<>>
    /\ grouped = {}
    /\ ret = Ok(<<>>)
    /\ pc = "idle"
    /\ pdf = "none"
    /\ pages = <<>>
    /\ figs = {}
    /\ gen = "none"
    /\ files = <<>>
    /\ warnings = <<>>
    /\ saved = <<>>

Idle == call.op = "none"

Invoke(op, days, limit, ascending) ==
    [op |-> op, days |-> days, limit |-> limit, ascending |-> ascending]

CallFilter(days) ==
    /\ Idle
    /\ call' = Invoke("filterLastNDaysFromMaxDate", days, 0, FALSE)
    /\ ret' = filterLastNDaysFromMaxDate(df, days)
    /\ UNCHANGED <<files, warnings, saved>>
    /\ UNCHANGED <<df, filtered, grouped, pc, pdf, pages, figs, gen>>

\* eda.prepareSummaryStatistics(df)
prepareSummaryStatistics ==
    /\ Idle
    /\ call' = Invoke("prepareSummaryStatistics", 0, 0, FALSE)
    /\ grouped' = GroupSum(df, "ticket")
    /\ ret' = Ok(<<summary(grouped')>>)
    /\ UNCHANGED <<files, warnings, saved>>
    /\ UNCHANGED <<df, filtered, pc, pdf, pages, figs, gen>>

\* The values eda.prepareTopSellers(rows, limit, ascending, days) can return.
TopSellers(rows, limit, ascending, days) ==
    LET f == filterLastNDaysFromMaxDate(rows, days)
    IN  IF ~f.ok THEN {f}
        ELSE {Ok(head(topSellers, limit)) :
                topSellers \in sort(GroupSum(f.val, "seller"), "total", ~ascending)}

\* eda.prepareTopSellers(df, limit, ascending, days)
prepareTopSellers(limit, ascending, days) ==
    /\ Idle
    /\ call' = Invoke("prepareTopSellers", days, limit, ascending)
    /\ LET f == filterLastNDaysFromMaxDate(df, days)
       IN  IF ~f.ok
           THEN UNCHANGED <<filtered, grouped>>
           ELSE /\ filtered' = f.val
                /\ grouped' = GroupSum(f.val, "seller")
    /\ ret' \in TopSellers(df, limit, ascending, days)
    /\ UNCHANGED <<files, warnings, saved>>
    /\ UNCHANGED <<df, pc, pdf, pages, figs, gen>>

\* eda.prepareSalesByDay(df, days)
prepareSalesByDay(days) ==
    /\ Idle
    /\ call' = Invoke("prepareSalesByDay", days, 0, FALSE)
    /\ LET f == filterLastNDaysFromMaxDate(df, days)
       IN  IF ~f.ok
           THEN /\ ret' = f
                /\ UNCHANGED <<filtered, grouped>>
           ELSE /\ filtered' = f.val
                /\ grouped' = GroupSum(f.val, "day")
                /\ \E salesByDay \in sort(grouped', "key", FALSE) :
                      ret' = Ok(salesByDay)
    /\ UNCHANGED <<files, warnings, saved>>
    /\ UNCHANGED <<df, pc, pdf, pages, figs, gen>>

\* eda.prepareSalesDistributions(df, days): a generator function.  The call
\* only creates the generator; its body runs when the generator is resumed.
prepareSalesDistributions(days) ==
    /\ Idle
    /\ call' = Invoke("prepareSalesDistributions", days, 0, FALSE)
    /\ gen' = "created"
    /\ ret' = Ok(<<>>)
    /\ UNCHANGED <<files, warnings, saved>>
    /\ UNCHANGED <<df, filtered, grouped, pc, pdf, pages, figs>>

\* First resumption: the body up to `yield fig2`.
DistributionsToHistogram(days) ==
    LET f == filterLastNDaysFromMaxDate(df, days)
    IN  IF ~f.ok
        THEN /\ gen' = "failed"
             /\ ret' = f
             /\ UNCHANGED <<filtered, grouped, figs>>
        ELSE /\ filtered' = f.val
             /\ grouped' = GroupSum(f.val, "movWarehouse")
             /\ figs' = figs \cup {"histogram"}
             /\ gen' = "histogram"
             /\ ret' = Ok(<<"histogram">>)

\* Second resumption: from `yield fig2` to `yield fig4`.
DistributionsToBoxplot ==
    /\ figs' = figs \cup {"boxplot"}
    /\ gen' = "boxplot"
    /\ ret' = Ok(<<"boxplot">>)
    /\ UNCHANGED <<filtered, grouped>>

\* next(generator) by a caller other than generateSalesEDA.
ResumeDistributions ==
    /\ call.op = "prepareSalesDistributions"
    /\ \/ /\ gen = "created"
          /\ DistributionsToHistogram(call.days)
       \/ /\ gen = "histogram"
          /\ DistributionsToBoxplot
       \/ /\ gen = "boxplot"
          /\ gen' = "exhausted"
          /\ ret' = Ok(<<>>)
          /\ UNCHANGED <<filtered, grouped, figs>>
    /\ UNCHANGED <<files, warnings, saved>>
    /\ UNCHANGED <<df, call, pc, pdf, pages>>

-----------------------------------------------------------------------------
(* eda.generateSalesEDA(df, outputPdfPath, days)                           *)

EdaLimit == 20

\* saveFigureToPdf without plt.close(fig): the figure stays open.
saveFigureKeepOpen(fig) ==
    /\ pages' = Append(pages, fig)
    /\ figs' = figs \cup {fig}

\* saveFigureToPdf(fig, pdf): pdf.savefig(fig) and plt.close(fig), of the
\* figure created just before it.
saveFigureToPdf(fig) ==
    /\ pages' = Append(pages, fig)
    /\ figs' = figs \ {fig}

Running == call.op = "generateSalesEDA"

Fail(r) ==
    /\ pc' = "failed"
    /\ ret' = r

\* Lines 213-214: the directory of outputPdfPath is created and the PDF is
\* opened.  os.makedirs fails on a path without a directory part
\* (os.path.dirname gives ""), before the PDF is opened.
generateSalesEDA(days, directory) ==
    /\ Idle
    /\ call' = Invoke("generateSalesEDA", days, 0, FALSE)
    /\ IF directory
       THEN /\ pdf' = "open"
            /\ pc' = "summary"
            /\ ret' = ret
       ELSE /\ Fail(Err("FileNotFoundError"))
            /\ pdf' = pdf
    /\ UNCHANGED <<files, warnings, saved>>
    /\ UNCHANGED <<df, filtered, grouped, pages, figs, gen>>

\* f"${int(value):,}" of line 230 (and barh before it) needs numbers.
Plottable(record) == \A c \in DOMAIN record : record[c] # NULL

\* Lines 216-245: the page of summary statistics.
EdaSummary ==
    /\ Running /\ pc = "summary"
    /\ grouped' = GroupSum(df, "ticket")
    /\ LET summaryDict == summary(grouped')
       IN  IF Plottable(summaryDict)
           THEN /\ ret' = Ok(<<summaryDict>>)
                /\ saveFigureToPdf("summary")
                /\ pc' = "salesByDay"
           ELSE /\ Fail(Err("TypeError"))
                /\ figs' = figs \cup {"summary"}
                /\ pages' = pages
    /\ UNCHANGED <<files, warnings, saved>>
    /\ UNCHANGED <<df, call, filtered, pdf, gen>>

\* Lines 247-257: the page of sales by day.
EdaSalesByDay ==
    /\ Running /\ pc = "salesByDay"
    /\ LET f == filterLastNDaysFromMaxDate(df, call.days)
       IN  IF ~f.ok
           THEN /\ Fail(f)
                /\ UNCHANGED <<filtered, grouped, pages, figs>>
           ELSE /\ filtered' = f.val
                /\ grouped' = GroupSum(f.val, "day")
                /\ \E salesByDay \in sort(grouped', "key", FALSE) :
                      ret' = Ok(salesByDay)
                /\ saveFigureToPdf("salesByDay")
                /\ pc' = "topSellers"
    /\ UNCHANGED <<files, warnings, saved>>
    /\ UNCHANGED <<df, call, pdf, gen>>

\* Lines 259-271 (ascending = FALSE) and 273-285 (ascending = TRUE).
EdaSellers(at, ascending, then) ==
    /\ Running /\ pc = at
    /\ LET f == filterLastNDaysFromMaxDate(df, call.days)
       IN  IF ~f.ok
           THEN /\ Fail(f)
                /\ UNCHANGED <<filtered, grouped, pages, figs>>
           ELSE /\ filtered' = f.val
                /\ grouped' = GroupSum(f.val, "seller")
                /\ \E topSellers \in sort(grouped', "total", ~ascending) :
                      ret' = Ok(head(topSellers, EdaLimit))
                /\ saveFigureToPdf(at)
                /\ pc' = then
    /\ UNCHANGED <<files, warnings, saved>>
    /\ UNCHANGED <<df, call, pdf, gen>>

EdaTopSellers == EdaSellers("topSellers", FALSE, "worstSellers")

EdaWorstSellers == EdaSellers("worstSellers", TRUE, "distributions")

\* Lines 287-289: the for loop over the generator, one iteration per step.
EdaDistributions ==
    /\ Running
    /\ \/ /\ pc = "distributions"
          /\ gen' = "created"
          /\ pc' = "histogram"
          /\ UNCHANGED <<filtered, grouped, ret, pages, figs>>
       \/ /\ pc = "histogram"
          /\ LET f == filterLastNDaysFromMaxDate(df, call.days)
             IN  IF ~f.ok
                 THEN /\ Fail(f)
                      /\ gen' = "failed"
                      /\ UNCHANGED <<filtered, grouped, pages, figs>>
                 ELSE /\ filtered' = f.val
                      /\ grouped' = GroupSum(f.val, "movWarehouse")
                      /\ gen' = "histogram"
                      /\ ret' = Ok(<<"histogram">>)
                      /\ saveFigureToPdf("histogram")
                      /\ pc' = "boxplot"
       \/ /\ pc = "boxplot"
          /\ gen' = "boxplot"
          /\ ret' = Ok(<<"boxplot">>)
          /\ saveFigureToPdf("boxplot")
          /\ pc' = "close"
          /\ UNCHANGED <<filtered, grouped>>
    /\ UNCHANGED <<files, warnings, saved>>
    /\ UNCHANGED <<df, call, pdf>>

\* The generator is exhausted and line 292 closes the PDF.
EdaClose ==
    /\ Running /\ pc = "close"
    /\ gen' = "exhausted"
    /\ pdf' = "closed"
    /\ pc' = "done"
    /\ UNCHANGED <<files, warnings, saved>>
    /\ UNCHANGED <<df, call, filtered, grouped, ret, pages, figs>>

-----------------------------------------------------------------------------

Next ==
    \/ \E days \in 0..MaxDays : CallFilter(days)
    \/ prepareSummaryStatistics
    \/ \E limit \in 1..MaxLimit, ascending \in BOOLEAN, days \in 0..MaxDays :
          prepareTopSellers(limit, ascending, days)
    \/ \E days \in 0..MaxDays : prepareSalesByDay(days)
    \/ \E days \in 0..MaxDays : prepareSalesDistributions(days)
    \/ ResumeDistributions
    \/ \E days \in 0..MaxDays, directory \in BOOLEAN :
          generateSalesEDA(days, directory)
    \/ EdaSummary
    \/ EdaSalesByDay
    \/ EdaTopSellers
    \/ EdaWorstSellers
    \/ EdaDistributions
    \/ EdaClose

Spec == Init /\ [][Next]_vars

-----------------------------------------------------------------------------
(* eda.cleanDateColumn(df, dateColumnName)                                 *)

\* A cell of a text column: null, or a text read as the five fields of the
\* format "%b %e %Y %I:%M%p" (the year is 2024 in every text).
Text(mon, day, hour, minute, meridiem) ==
    [null |-> FALSE, mon |-> mon, day |-> day, year |-> 2024, hour |-> hour,
     minute |-> minute, meridiem |-> meridiem]

NullText ==
    [null |-> TRUE, mon |-> "", day |-> 0, year |-> 0, hour |-> 0, minute |-> 0,
     meridiem |-> ""]

\* Texts of the format, among them both ends of a day and of a month.
GoodTexts ==
    {Text("Jan", 1, 12, 0, "AM"), Text("Jan", 1, 12, 30, "PM"),
     Text("Jan", 31, 11, 59, "PM"), Text("Feb", 29, 1, 5, "AM")}

\* Texts that are not of the format: a month name that is no English
\* abbreviation, a day the month does not have, a 24-hour time, no AM/PM.
BadTexts ==
    {Text("Ene", 1, 12, 0, "AM"), Text("Feb", 30, 1, 5, "AM"),
     Text("Jan", 1, 13, 0, "PM"), Text("Jan", 1, 11, 59, "")}

Texts == GoodTexts \cup BadTexts \cup {NullText}

\* Rows whose timestamp column is still text, of two sellers.
TextRows ==
    [wh : {"W1"}, mov : {"T1"}, ts : Texts, seller : {"A", "B"}, price : {1}]

TextTables == TablesOver(TextRows)

\* df.columns, and the columns of it that hold text.
Columns == {"wh", "mov", "ts", "seller", "price"}

StringColumns == {"ts"}

\* %b: the abbreviated month names, with the days before and in each month
\* of 2024.
Months == {"Jan", "Feb"}

DaysBefore(mon) == IF mon = "Jan" THEN 0 ELSE 31

DaysIn(mon) == IF mon = "Jan" THEN 31 ELSE 29

\* The text is of the format "%b %e %Y %I:%M%p" and names a date that exists.
Matches(t) ==
    /\ t.mon \in Months
    /\ t.day \in 1..DaysIn(t.mon)
    /\ t.hour \in 1..12
    /\ t.minute \in 0..59
    /\ t.meridiem \in {"AM", "PM"}

\* %I with %p: 12 AM is hour 0 and 12 PM is hour 12.
Hour24(t) == (t.hour % 12) + (IF t.meridiem = "PM" THEN 12 ELSE 0)

\* The timestamp of a text of the format, in ticks since Jan 1 2024 0:00.
Ticks(t) ==
    (DaysBefore(t.mon) + t.day - 1) * TicksPerDay
        + ((Hour24(t) * 60 + t.minute) * TicksPerDay) \div 1440

\* One cell of str.strptime: a null stays null.
ParseCell(t) == IF t.null THEN NULL ELSE Ticks(t)

\* str.strptime(..., strict=False): a text that is not of the format becomes
\* null.
strptimeLenient(rows) ==
    Ok([i \in DOMAIN rows |->
          [rows[i] EXCEPT !.ts = IF ~@.null /\ Matches(@) THEN Ticks(@) ELSE NULL]])

\* select([...]) in place of with_columns([...]): the parsed column alone.
strptimeSelect(rows) ==
    IF \E i \in DOMAIN rows : ~rows[i].ts.null /\ ~Matches(rows[i].ts)
    THEN Err("InvalidOperationError")
    ELSE Ok([i \in DOMAIN rows |-> [ts |-> ParseCell(rows[i].ts)]])

\* with_columns([pl.col(c).str.strptime(pl.Datetime, format=...).alias(c)]),
\* strict by default: one text that is not of the format fails the whole
\* expression.
strptime(rows) ==
    IF \E i \in DOMAIN rows : ~rows[i].ts.null /\ ~Matches(rows[i].ts)
    THEN Err("InvalidOperationError")
    ELSE Ok([i \in DOMAIN rows |-> [rows[i] EXCEPT !.ts = ParseCell(@)]])

\* The outcome of cleanDateColumn(rows, dateColumnName).
CleanOutcome(rows, dateColumnName) ==
    IF dateColumnName \notin Columns THEN Err("ValueError")
    ELSE IF dateColumnName \notin StringColumns THEN Err("SchemaError")
    ELSE strptime(rows)

CleanCall(dateColumnName) ==
    [op |-> "cleanDateColumn", dateColumnName |-> dateColumnName]

cleanDateColumn(dateColumnName) ==
    /\ Idle
    /\ call' = CleanCall(dateColumnName)
    /\ ret' = CleanOutcome(df, dateColumnName)
    /\ UNCHANGED <<files, warnings, saved>>
    /\ UNCHANGED <<df, filtered, grouped, pc, pdf, pages, figs, gen>>

InitClean ==
    /\ df \in TextTables
    /\ call = NoCall
    /\ filtered = <<>>
    /\ grouped = {}
    /\ ret = Ok(<<>>)
    /\ pc = "idle"
    /\ pdf = "none"
    /\ pages = <<>>
    /\ figs = {}
    /\ gen = "none"
    /\ files = <<>>
    /\ warnings = <<>>
    /\ saved = <<>>

NextClean ==
    \E dateColumnName \in Columns \cup {"Date"} : cleanDateColumn(dateColumnName)

SpecClean == InitClean /\ [][NextClean]_vars

-----------------------------------------------------------------------------
(* polarsUtils.createMergedDataFrameFromExcelMatch                         *)

MaxFiles == 3

\* An .xlsx file of the directory: whether its name matches the keyword,
\* whether pl.read_excel reads it, and its columns: the expected ones
\* ("full"), the expected ones with another dtype in one of them ("alt"), or
\* not all the expected ones ("short").
ExcelFiles ==
    [match : BOOLEAN, readable : BOOLEAN, schema : {"full", "alt", "short"}]

Directories == UNION {[1..n -> ExcelFiles] : n \in 0..MaxFiles}

\* The rows of the sheet of file i.
FileRows(i) == <<[file |-> i, line |-> 1], [file |-> i, line |-> 2]>>

\* systemUtils.findExcelFilesByMatch: the matching files in listing order.
findExcelFilesByMatch(directory) ==
    LET Match(i) == directory[i].match
    IN  SelectSeq([i \in DOMAIN directory |-> i], Match)

\* readExcelToDataFrame: the schema of the frame read, or an error.
readExcelToDataFrame(f) ==
    IF f.readable THEN Ok(f.schema) ELSE Err("Exception")

\* selectColumns(df, columns): ValueError when a column is missing.
selectColumns(schema) ==
    IF schema = "short" THEN Err("ValueError") ELSE Ok(schema)

\* The body of the try of lines 218-222 for one file.
TryFile(f, columns) ==
    LET r == readExcelToDataFrame(f)
    IN  IF r.ok /\ columns THEN selectColumns(r.val) ELSE r

\* The loop of lines 216-224 leaving at the first file that fails.
dataFramesUntilFailure(directory, matchingFiles, columns) ==
    LET Before(k) ==
            \A j \in 1..k : TryFile(directory[matchingFiles[j]], columns).ok
    IN  SubSeq(matchingFiles, 1,
               Cardinality({k \in DOMAIN matchingFiles : Before(k)}))

\* The loop of lines 216-224: the files appended to dataFrames; a file whose
\* try fails is passed over (except Exception).
dataFrames(directory, matchingFiles, columns) ==
    LET Read(i) == TryFile(directory[i], columns).ok
    IN  SelectSeq(matchingFiles, Read)

\* The files of matchingFiles the loop prints a warning for.
Warned(directory, matchingFiles, columns) ==
    LET Failed(i) == ~TryFile(directory[i], columns).ok
    IN  SelectSeq(matchingFiles, Failed)

RECURSIVE Concat(_)
Concat(frames) ==
    IF frames = <<>> THEN <<>>
    ELSE FileRows(Head(frames)) \o Concat(Tail(frames))

\* unionDataFrames(dataFrames): pl.concat needs frames of one schema.
unionDataFrames(directory, frames, columns) ==
    IF frames = <<>> THEN Err("ValueError")
    ELSE IF Cardinality({TryFile(directory[frames[k]], columns).val :
                            k \in DOMAIN frames}) > 1
         THEN Err("PolarsError")
         ELSE Ok(Concat(frames))

MergeCall(columns, saveToExcel, outputPath) ==
    [op |-> "createMergedDataFrameFromExcelMatch", columns |-> columns,
     saveToExcel |-> saveToExcel, outputPath |-> outputPath]

\* columns: a list of columns is given; outputPath: a path is given.
createMergedDataFrameFromExcelMatch(columns, saveToExcel, outputPath) ==
    /\ Idle
    /\ call' = MergeCall(columns, saveToExcel, outputPath)
    /\ LET matchingFiles == findExcelFilesByMatch(files)
           frames == dataFrames(files, matchingFiles, columns)
           mergedDataFrame == unionDataFrames(files, frames, columns)
       IN  IF matchingFiles = <<>>
           THEN /\ ret' = Err("FileNotFoundError")
                /\ UNCHANGED <<warnings, saved>>
           ELSE /\ warnings' = Warned(files, matchingFiles, columns)
                /\ IF frames = <<>>
                   THEN ret' = Err("ValueError") /\ saved' = saved
                   ELSE IF ~mergedDataFrame.ok
                   THEN ret' = mergedDataFrame /\ saved' = saved
                   ELSE IF saveToExcel /\ ~outputPath
                   THEN ret' = Err("ValueError") /\ saved' = saved
                   ELSE /\ ret' = mergedDataFrame
                        /\ saved' = IF saveToExcel
                                    THEN Append(saved, mergedDataFrame.val)
                                    ELSE saved
    /\ UNCHANGED <<df, filtered, grouped, pc, pdf, pages, figs, gen, files>>

InitLoad ==
    /\ df = <<>>
    /\ call = NoCall
    /\ filtered = <<>>
    /\ grouped = {}
    /\ ret = Ok(<<>>)
    /\ pc = "idle"
    /\ pdf = "none"
    /\ pages = <<>>
    /\ figs = {}
    /\ gen = "none"
    /\ files \in Directories
    /\ warnings = <<>>
    /\ saved = <<>>

NextLoad ==
    \E columns \in BOOLEAN, saveToExcel \in BOOLEAN, outputPath \in BOOLEAN :
        createMergedDataFrameFromExcelMatch(columns, saveToExcel, outputPath)

SpecLoad == InitLoad /\ [][NextLoad]_vars

-----------------------------------------------------------------------------
(* Properties                                                              *)

Called(op) == call.op = op

\* The positions of the rows of df whose timestamp is a value and at least c.
AtLeast(c) == {i \in DOMAIN df : df[i].ts # NULL /\ df[i].ts >= c}

\* s holds exactly the rows of df at the positions I, in the order of df.
RowsAt(s, I) ==
    /\ Len(s) = Cardinality(I)
    /\ \A k \in 1..Len(s) :
          \E i \in I : /\ Cardinality({j \in I : j <= i}) = k
                       /\ s[k] = df[i]

HasDate == \E i \in DOMAIN df : df[i].ts # NULL

\* The largest timestamp of df, when HasDate.
MaxDate ==
    CHOOSE m \in {df[i].ts : i \in DOMAIN df} \ {NULL} :
        \A i \in DOMAIN df : df[i].ts <= m

WindowIsExact ==
    /\ ret.ok
    /\ RowsAt(ret.val, AtLeast(MaxDate - call.days * TicksPerDay))
    /\ call.days = 0 =>
          RowsAt(ret.val, {i \in DOMAIN df : df[i].ts = MaxDate})

\* C1 as stated: on every table with at least one row,
\* filterLastNDaysFromMaxDate returns exactly the rows whose timestamp is at
\* least max - days, in their original order; with days = 0, the rows at the
\* maximum.
C1_AsStated ==
    (Called("filterLastNDaysFromMaxDate") /\ Len(df) >= 1) => WindowIsExact

\* C1 amended: on every table with at least one row whose timestamp is not
\* null, filterLastNDaysFromMaxDate returns exactly the rows whose timestamp
\* is at least max - days (rows with a null timestamp are left out), in their
\* original order; with days = 0, exactly the rows at the maximum.  A table
\* whose timestamps are all null ends in an error, like the empty table.
C1_WindowExact ==
    /\ (Called("filterLastNDaysFromMaxDate") /\ HasDate) => WindowIsExact
    /\ (Called("filterLastNDaysFromMaxDate") /\ ~HasDate) => ~ret.ok

\* A window of one day or more that keeps a row exactly at the cutoff, a row
\* above it, and leaves a row out.
C1_Witness ==
    /\ Called("filterLastNDaysFromMaxDate") /\ call.days >= 1 /\ ret.ok
    /\ Len(ret.val) < Cardinality(AtLeast(0))
    /\ \E k \in DOMAIN ret.val :
          ret.val[k].ts = MaxDate - call.days * TicksPerDay
    /\ \E k \in DOMAIN ret.val : ret.val[k].ts = MaxDate

\* a is b with some rows left out.
RECURSIVE IsSubSeq(_, _)
IsSubSeq(a, b) ==
    IF a = <<>> THEN TRUE
    ELSE IF b = <<>> THEN FALSE
    ELSE IF Head(a) = Head(b) THEN IsSubSeq(Tail(a), Tail(b))
    ELSE IsSubSeq(a, Tail(b))

\* C2: the rows filterLastNDaysFromMaxDate returns for days1 are all returned
\* for every days2 > days1.
C2_Monotonic ==
    (Called("filterLastNDaysFromMaxDate") /\ ret.ok) =>
        \A days2 \in (call.days + 1)..(MaxDays + 1) :
            LET wider == filterLastNDaysFromMaxDate(df, days2)
            IN  wider.ok /\ IsSubSeq(ret.val, wider.val)

\* A window that a wider one strictly extends.
C2_Witness ==
    /\ Called("filterLastNDaysFromMaxDate") /\ ret.ok /\ call.days < MaxDays
    /\ Len(filterLastNDaysFromMaxDate(df, call.days + 1).val) > Len(ret.val)
    /\ Len(ret.val) >= 2

\* C3: on a table with no rows, filterLastNDaysFromMaxDate ends in an error
\* for every days, and so do prepareTopSellers and prepareSalesByDay; the
\* generator of prepareSalesDistributions yields no figure and ends in the
\* same error when it is first resumed.
C3_EmptyTableFails ==
    df = <<>> =>
        /\ Called("filterLastNDaysFromMaxDate") => ~ret.ok
        /\ Called("prepareTopSellers") => ~ret.ok
        /\ Called("prepareSalesByDay") => ~ret.ok
        /\ Called("prepareSalesDistributions") =>
              /\ gen \in {"created", "failed"}
              /\ gen = "failed" => ~ret.ok
              /\ figs = {}

\* The generator over the empty table has been resumed and has failed.
C3_Witness ==
    /\ df = <<>>
    /\ Called("prepareSalesDistributions")
    /\ gen = "failed" /\ ~ret.ok /\ ret.err = "ValueError"

\* The sum of the totals of a grouped table.
RECURSIVE SumTotals(_)
SumTotals(G) ==
    IF G = {} THEN 0
    ELSE LET g == CHOOSE x \in G : TRUE IN g.total + SumTotals(G \ {g})

\* The sum of the price of the rows of a table at the positions I.
RECURSIVE PriceAt(_, _)
PriceAt(rows, I) ==
    IF I = {} THEN 0
    ELSE LET i == CHOOSE x \in I : TRUE IN rows[i].price + PriceAt(rows, I \ {i})

\* An aggregation has run: its input rows are `Input` and its result `grouped`.
Aggregated ==
    \/ Called("prepareSummaryStatistics")
    \/ (Called("prepareTopSellers") \/ Called("prepareSalesByDay")) /\ ret.ok
    \/ Called("prepareSalesDistributions") /\ gen \in {"histogram", "boxplot", "exhausted"}

Input == IF Called("prepareSummaryStatistics") THEN df ELSE filtered

\* The grouping key of the aggregation that has run, of row r.
InputKey(r) ==
    CASE Called("prepareSummaryStatistics") -> <<r.wh, r.mov>>
      [] Called("prepareTopSellers") -> r.seller
      [] Called("prepareSalesByDay") -> r.ts \div TicksPerDay
      [] Called("prepareSalesDistributions") -> <<r.mov, r.wh>>

\* C4: for each grouping of the pipeline (seller, warehouse + ticket, calendar
\* day), the per-group totals add up to the sum of the sale price over the
\* input rows of the aggregation.
C4_Conservation ==
    Aggregated => SumTotals(grouped) = PriceAt(Input, DOMAIN Input)

\* An aggregation of three rows into two groups, one of them of two rows.
C4_Witness ==
    /\ Aggregated /\ Len(Input) = 3 /\ Cardinality(grouped) = 2
    /\ SumTotals(grouped) >= 3

\* C5: the Aggregator gives exactly one row per distinct key value of its
\* input (no key twice), carrying the sum of the sale price of exactly the
\* rows with that key; rows (W1,T1,100), (W1,T1,50), (W2,T2,200) grouped by
\* (warehouse, ticket) give {(W1,T1): 150, (W2,T2): 200}.
C5_OneRowPerKey ==
    /\ Aggregated =>
          /\ \A g, h \in grouped : g.key = h.key => g = h
          /\ {g.key : g \in grouped} = {InputKey(Input[i]) : i \in DOMAIN Input}
          /\ \A g \in grouped :
                g.total = PriceAt(Input, {i \in DOMAIN Input : InputKey(Input[i]) = g.key})
    /\ GroupSum(<<[wh |-> "W1", mov |-> "T1", ts |-> 0, seller |-> "A", price |-> 100],
                  [wh |-> "W1", mov |-> "T1", ts |-> 0, seller |-> "A", price |-> 50],
                  [wh |-> "W2", mov |-> "T2", ts |-> 2, seller |-> "A", price |-> 200]>>,
                "ticket")
          = {[key |-> <<"W1", "T1">>, total |-> 150],
             [key |-> <<"W2", "T2">>, total |-> 200]}

\* Tickets that share the warehouse or the movement id, but not both, stay
\* apart, and two rows of one ticket are added up.
C5_Witness ==
    /\ Called("prepareSummaryStatistics") /\ Len(df) = 3
    /\ \E g, h \in grouped :
          /\ g.key[1] # h.key[1] /\ g.key[2] = h.key[2]
          /\ g.total = 3

\* The first position of seller k in the filtered table.
FirstRow(k) ==
    CHOOSE i \in DOMAIN filtered :
        /\ filtered[i].seller = k
        /\ \A j \in DOMAIN filtered : filtered[j].seller = k => i <= j

\* Group g comes before group h in the stable sort on the total.
StablyBefore(g, h) ==
    \/ IF call.ascending THEN g.total < h.total ELSE g.total > h.total
    \/ g.total = h.total /\ FirstRow(g.key) < FirstRow(h.key)

Smaller(a, b) == IF a < b THEN a ELSE b

\* C6: prepareTopSellers returns the first min(N, number of seller groups in
\* the window) groups of the seller totals sorted by total (descending for
\* top, ascending for bottom), groups of equal total in input order, and all
\* groups, without an error, when N exceeds their number.
C6_StableTopN ==
    (Called("prepareTopSellers") /\ HasDate) =>
        /\ ret.ok
        /\ Len(ret.val) = Smaller(call.limit, Cardinality(grouped))
        /\ \A k \in DOMAIN ret.val : ret.val[k] \in grouped
        /\ \A i, j \in DOMAIN ret.val : i < j => StablyBefore(ret.val[i], ret.val[j])
        /\ \A g \in grouped :
              (\A k \in DOMAIN ret.val : ret.val[k] # g) =>
                  \A k \in DOMAIN ret.val : StablyBefore(ret.val[k], g)

\* The keys of the rows of a sorted table.
KeysOf(s) == {s[k].key : k \in DOMAIN s}

Reverse(s) == [k \in DOMAIN s |-> s[Len(s) + 1 - k]]

\* The seller groups of the window of the call.
Groups == GroupSum(filterLastNDaysFromMaxDate(df, call.days).val, "seller")

TopCalled == Called("prepareTopSellers") /\ ~call.ascending /\ ret.ok

\* C7 as stated: the Top-N and the Bottom-N of the same table, days and N
\* share no group unless N covers all groups, and with N the group count the
\* bottom list is the top list reversed.
C7_AsStated ==
    TopCalled =>
        \A bottom \in TopSellers(df, call.limit, TRUE, call.days) :
            /\ call.limit < Cardinality(Groups) =>
                  KeysOf(ret.val) \cap KeysOf(bottom.val) = {}
            /\ call.limit = Cardinality(Groups) => bottom.val = Reverse(ret.val)

\* C7 as stated, on the tables in which no two groups have the same total, so
\* that the sorted order is the same in every run; a violation of it is a
\* violation of C7 as stated.
C7_AsStatedDistinct ==
    (\A g, h \in Groups : g.total = h.total => g = h) => C7_AsStated

\* C7 amended: when 2N is at most the group count, every total of the Top-N
\* is at least every total of the Bottom-N, and a group is in both only if
\* another group has the same total; when N is at least the group count, each
\* list holds every group once, the totals of the bottom list are those of the
\* top list reversed, and the bottom list is the top list reversed if no two
\* groups have the same total.
C7_TopBottom ==
    TopCalled =>
        \A bottom \in TopSellers(df, call.limit, TRUE, call.days) :
            /\ bottom.ok
            /\ 2 * call.limit <= Cardinality(Groups) =>
                  \A i \in DOMAIN ret.val, j \in DOMAIN bottom.val :
                      /\ ret.val[i].total >= bottom.val[j].total
                      /\ ret.val[i].key = bottom.val[j].key =>
                            \E g \in Groups : /\ g.key # ret.val[i].key
                                              /\ g.total = ret.val[i].total
            /\ call.limit >= Cardinality(Groups) =>
                  /\ Len(ret.val) = Cardinality(Groups)
                  /\ Len(bottom.val) = Cardinality(Groups)
                  /\ {ret.val[k] : k \in DOMAIN ret.val} = Groups
                  /\ {bottom.val[k] : k \in DOMAIN bottom.val} = Groups
                  /\ \A k \in DOMAIN ret.val :
                        bottom.val[k].total = Reverse(ret.val)[k].total
                  /\ (\A g, h \in Groups : g.total = h.total => g = h) =>
                        bottom.val = Reverse(ret.val)

\* A Top-2 of exactly two groups of different totals, and so the reverse of
\* the Bottom-2.
C7_WitnessReverse ==
    /\ TopCalled /\ call.limit = 2 /\ Len(ret.val) = 2
    /\ ret.val[1].total > ret.val[2].total
    /\ Cardinality(Groups) = 2

\* A Top-1 of two groups of different totals: N below the group count.
C7_Witness ==
    /\ TopCalled /\ call.limit = 1 /\ Cardinality(Groups) = 2
    /\ \A g \in Groups : g # ret.val[1] => g.total < ret.val[1].total

\* C8: prepareSalesByDay returns one row per calendar day that has a
\* transaction in the window, carrying the sum of the sale price of the rows
\* of that day in the window, strictly ascending by day; a day of the window
\* without a transaction has no row, and no day has two.
C8_SalesByDay ==
    (Called("prepareSalesByDay") /\ HasDate) =>
        LET cutoff == MaxDate - call.days * TicksPerDay
            DayAt(i) == df[i].ts \div TicksPerDay
        IN  /\ ret.ok
            /\ \A i, j \in DOMAIN ret.val : i < j => ret.val[i].key < ret.val[j].key
            /\ KeysOf(ret.val) = {DayAt(i) : i \in AtLeast(cutoff)}
            /\ \A k \in DOMAIN ret.val :
                  ret.val[k].total =
                      PriceAt(df, {i \in AtLeast(cutoff) : DayAt(i) = ret.val[k].key})

\* Two rows of one day at different times and a row two days later: two rows
\* are returned and the day between them, inside the window, has none.
C8_Witness ==
    /\ Called("prepareSalesByDay") /\ ret.ok /\ call.days = 2
    /\ Len(ret.val) = 2
    /\ ret.val[1].key = 0 /\ ret.val[1].total = 2
    /\ ret.val[2].key = 2
    /\ \E i, j \in DOMAIN df : df[i].ts = 0 /\ df[j].ts = 1

\* C6 without the order of equal totals: the result holds min(N, group count)
\* groups, sorted on the total, and no group left out sorts before one in it.
C6_SortedTopN ==
    (Called("prepareTopSellers") /\ HasDate) =>
        /\ ret.ok
        /\ Len(ret.val) = Smaller(call.limit, Cardinality(grouped))
        /\ \A i, j \in DOMAIN ret.val :
              i < j => /\ ret.val[i] # ret.val[j]
                       /\ IF call.ascending THEN ret.val[i].total <= ret.val[j].total
                                            ELSE ret.val[i].total >= ret.val[j].total
        /\ \A g \in grouped, k \in DOMAIN ret.val :
              (\A i \in DOMAIN ret.val : ret.val[i] # g) =>
                  IF call.ascending THEN ret.val[k].total <= g.total
                                    ELSE ret.val[k].total >= g.total

\* The tickets of df and the total sale price of each.
Tickets == {<<df[i].wh, df[i].mov>> : i \in DOMAIN df}

TicketTotal(t) == PriceAt(df, {i \in DOMAIN df : <<df[i].wh, df[i].mov>> = t})

RECURSIVE SumSquares(_)
SumSquares(T) ==
    IF T = {} THEN 0
    ELSE LET t == CHOOSE x \in T : TRUE
         IN  TicketTotal(t) * TicketTotal(t) + SumSquares(T \ {t})

Abs(x) == IF x < 0 THEN -x ELSE x

\* The record r holds the reductions of the ticket totals, in hundredths.
OverTickets(r) ==
    LET n == Cardinality(Tickets)
        S == PriceAt(df, DOMAIN df)
        num == n * SumSquares(Tickets) - S * S
        den == n * (n - 1)
    IN  IF n = 0 THEN \A c \in DOMAIN r : r[c] = NULL
        ELSE /\ 2 * Abs(r[SALES_MEAN] * n - 100 * S) <= n
             /\ \E t \in Tickets : r[SALES_MIN] = 100 * TicketTotal(t)
             /\ \A t \in Tickets : r[SALES_MIN] <= 100 * TicketTotal(t)
             /\ \E t \in Tickets : r[SALES_MAX] = 100 * TicketTotal(t)
             /\ \A t \in Tickets : r[SALES_MAX] >= 100 * TicketTotal(t)
             /\ 2 * Cardinality({t \in Tickets : 100 * TicketTotal(t) < r[SALES_MEDIAN]}) <= n
             /\ 2 * Cardinality({t \in Tickets : 100 * TicketTotal(t) > r[SALES_MEDIAN]}) <= n
             /\ IF n = 1 THEN r[SALES_STDDEV] = NULL
                ELSE /\ r[SALES_STDDEV] >= 0
                     /\ (2 * r[SALES_STDDEV] + 1) * (2 * r[SALES_STDDEV] + 1) * den
                            > 40000 * num
                     /\ r[SALES_STDDEV] >= 1 =>
                            (2 * r[SALES_STDDEV] - 1) * (2 * r[SALES_STDDEV] - 1) * den
                                <= 40000 * num

\* C9 as stated: prepareSummaryStatistics reduces the per-ticket totals, not
\* the rows, into exactly one record of six named statistics (mean, median,
\* standard deviation, min, max and the count they are based on).
C9_AsStated ==
    Called("prepareSummaryStatistics") =>
        /\ ret.ok /\ Len(ret.val) = 1
        /\ OverTickets(ret.val[1])
        /\ Cardinality(DOMAIN ret.val[1]) = 6

\* C9 amended: prepareSummaryStatistics reduces the per-ticket totals, not
\* the rows, into exactly one record of five named statistics: mean, median,
\* standard deviation, min and max; the record holds no count.
C9_SummaryOfTickets ==
    Called("prepareSummaryStatistics") =>
        /\ ret.ok /\ Len(ret.val) = 1
        /\ OverTickets(ret.val[1])
        /\ DOMAIN ret.val[1] =
              {"PROMEDIO", "MEDIANA", "DESVIACION ESTANDAR", "VENTA MINIMA", "VENTA MAXIMA"}

\* Two tickets, one of two rows: the largest ticket total is above the largest
\* row price and the standard deviation is a number.
C9_Witness ==
    /\ Called("prepareSummaryStatistics") /\ Len(df) = 3
    /\ Cardinality(Tickets) = 2
    /\ \A i \in DOMAIN df : ret.val[1][SALES_MAX] > 100 * df[i].price
    /\ ret.val[1][SALES_STDDEV] > 0

\* C10: the standard deviation over a single ticket is null, not zero, and
\* generateSalesEDA, once its PDF is open, does not fail on a table of
\* exactly one ticket.
C10_SingleTicketHandled ==
    Cardinality(Tickets) = 1 =>
        /\ Called("prepareSummaryStatistics") => ret.val[1][SALES_STDDEV] = NULL
        /\ (Called("generateSalesEDA") /\ pdf # "none") => pc # "failed"

\* What the code does: over a single ticket the standard deviation is null and
\* generateSalesEDA fails on its first page, with the PDF left open.
C10_SingleTicketFails ==
    Cardinality(Tickets) = 1 =>
        /\ Called("prepareSummaryStatistics") => ret.val[1][SALES_STDDEV] = NULL
        /\ Called("generateSalesEDA") =>
              /\ pc \in {"summary", "failed"}
              /\ pc = "failed" => ~ret.ok /\ pages = <<>>
              /\ (pc = "failed" /\ ret = Err("TypeError")) => pdf = "open"

-----------------------------------------------------------------------------
(* cleanDateColumn                                                         *)

Cleaned == Called("cleanDateColumn")

\* Row i of df holds a text that is not of the format.
Unparseable(i) == ~df[i].ts.null /\ df[i].ts \in BadTexts

\* C11: cleanDateColumn(df, C) ends in an error when C is no column of df and
\* when some value of C is a text that is not of the format; a table it
\* returns has a null timestamp only where df has a null.
C11_StrictParse ==
    Cleaned =>
        /\ call.dateColumnName \notin Columns => ~ret.ok
        /\ (\E i \in DOMAIN df : Unparseable(i)) => ~ret.ok
        /\ ret.ok =>
              \A i \in DOMAIN ret.val :
                  ret.val[i].ts = NULL => i \in DOMAIN df /\ df[i].ts.null

\* The date column is cleaned, of a table with a text of the format before a
\* text that is not, and the call fails.
C11_Witness ==
    /\ Cleaned /\ call.dateColumnName = "ts"
    /\ \E i, j \in DOMAIN df :
          i < j /\ df[i].ts \in GoodTexts /\ Unparseable(j)
    /\ ret = Err("InvalidOperationError")

\* C12: a call of cleanDateColumn(df, C) that succeeds leaves df as it was
\* and returns a table with the rows of df in their order: as many rows, the
\* same columns, every column other than C with the values of df, and in C
\* the timestamp of the text of df (null for null).
C12_Frame ==
    [][(call'.op = "cleanDateColumn" /\ ret'.ok) =>
          /\ df' = df
          /\ Len(ret'.val) = Len(df)
          /\ \A i \in DOMAIN df :
                /\ DOMAIN ret'.val[i] = Columns
                /\ \A c \in Columns \ {call'.dateColumnName} :
                      ret'.val[i][c] = df[i][c]
                /\ ret'.val[i].ts = ParseCell(df[i].ts)]_vars

\* The call succeeds on a table of rows that differ in seller and in
\* timestamp, one of them null.
C12_Witness ==
    /\ Cleaned /\ ret.ok
    /\ \E i, j, k \in DOMAIN df :
          /\ i < j /\ j < k
          /\ df[i].seller # df[j].seller
          /\ df[i].ts.null /\ ~df[j].ts.null /\ ~df[k].ts.null
          /\ ret.val[j].ts > ret.val[k].ts

-----------------------------------------------------------------------------
(* createMergedDataFrameFromExcelMatch                                     *)

Loaded == Called("createMergedDataFrameFromExcelMatch")

Matching == {i \in DOMAIN files : files[i].match}

\* File i cannot be read, or lacks a column of the list of columns given.
Failing(i) ==
    \/ ~files[i].readable
    \/ call.columns /\ files[i].schema = "short"

\* The files of the returned table, one entry per row.
FilesOf(table) == {table[k].file : k \in DOMAIN table}

\* C13 as stated, for a call with the list of expected columns on files that
\* can all be read: the call fails when no file matches and when a matching
\* file lacks an expected column, so that no table is returned without the
\* rows of a matching file.
C13_AsStated ==
    (Loaded /\ call.columns /\ \A i \in Matching : files[i].readable) =>
        /\ Matching = {} => ret = Err("FileNotFoundError")
        /\ (\E i \in Matching : files[i].schema = "short") => ~ret.ok
        /\ ret.ok => FilesOf(ret.val) = Matching

\* The schemas the frames of the files that did not fail have for pl.concat.
Schemas == {files[i].schema : i \in {j \in Matching : ~Failing(j)}}

\* C13: the call fails with FileNotFoundError when no file matches; a
\* matching file that cannot be read or lacks a column of the list is passed
\* over with a warning, and the call fails only when every matching file is
\* passed over, when the frames left differ in schema, or when the table is to
\* be saved and no output path is given; otherwise it returns the rows of the
\* matching files that did not fail, file by file in listing order.
C13_SkipsFailingFiles ==
    Loaded =>
        /\ Matching = {} => ret = Err("FileNotFoundError")
        /\ ret.ok <=>
              /\ \E i \in Matching : ~Failing(i)
              /\ Cardinality(Schemas) = 1
              /\ ~(call.saveToExcel /\ ~call.outputPath)
        /\ Matching # {} =>
              {warnings[k] : k \in DOMAIN warnings}
                  = {i \in Matching : Failing(i)}
        /\ ret.ok =>
              /\ FilesOf(ret.val) = {i \in Matching : ~Failing(i)}
              /\ Len(ret.val) = 2 * Cardinality(FilesOf(ret.val))
              /\ \A p, q \in DOMAIN ret.val :
                    p < q => \/ ret.val[p].file < ret.val[q].file
                             \/ /\ ret.val[p].file = ret.val[q].file
                                /\ ret.val[p].line < ret.val[q].line
              /\ saved = IF call.saveToExcel THEN <<ret.val>> ELSE <<>>

\* A table is returned that lacks the rows of a matching file without a
\* column of the list, which lies between two files that are read.
C13_Witness ==
    /\ Loaded /\ call.columns /\ ret.ok
    /\ \E i, j, k \in Matching :
          /\ i < j /\ j < k
          /\ files[j].readable /\ files[j].schema = "short"
          /\ FilesOf(ret.val) = {i, k}
    /\ warnings # <<>>

-----------------------------------------------------------------------------
(* generateSalesEDA: the PDF and its pages                                 *)

SixPages ==
    <<"summary", "salesByDay", "topSellers", "worstSellers", "histogram",
      "boxplot">>

\* What holds in every state of a run of generateSalesEDA.
PdfOrder ==
    Running =>
        /\ pc # "failed" => pdf # "none"
        /\ pdf = "none" => pages = <<>> /\ grouped = {} /\ figs = {}
        /\ pc = "summary" => pages = <<>> /\ grouped = {} /\ ret = Ok(<<>>)
        /\ Len(pages) <= Len(SixPages)
        /\ pages = SubSeq(SixPages, 1, Len(pages))
        /\ \A k \in DOMAIN pages : pages[k] \notin figs
        /\ pdf = "closed" <=> pc = "done"
        /\ pdf = "closed" => pages = SixPages
        /\ pc = "failed" => pdf # "closed" /\ ~ret.ok /\ pages # SixPages
        /\ (pc = "failed" /\ ret # Err("FileNotFoundError")) => pdf = "open"

\* What holds of every step: a page is appended to the pages there are, a
\* closed PDF gets no page, and after a failure the PDF is not closed.
PdfStep ==
    /\ pages' # pages =>
          /\ pdf = "open" /\ pdf' = "open"
          /\ \E fig \in {SixPages[k] : k \in DOMAIN SixPages} :
                pages' = Append(pages, fig)
    /\ pc = "failed" => pc' = "failed" /\ pdf' = pdf

\* C14: in every run of generateSalesEDA the PDF is open before a statistic
\* is computed; the pages saved are a prefix of summary, sales by day, top
\* sellers, worst sellers, histogram, boxplot, each saved figure closed; the
\* PDF is closed exactly after the sixth page; a run that fails in one of
\* the stages stays failed with the PDF open and fewer than six pages (a
\* run that cannot create the output directory fails before them, with no
\* PDF and nothing computed).
C14_PageOrder == []PdfOrder /\ [][PdfStep]_vars

\* A run that saved the summary page fails on the page of sales by day (no
\* row has a timestamp) with the PDF open.
C14_Witness ==
    /\ Running /\ pc = "failed"
    /\ pages = <<"summary">>
    /\ pdf = "open"
    /\ ret = Err("ValueError")

====
